---- MODULE Spec2Model ----
(***************************************************************************)
(* Model of convert_ffxi_audio.py: discovery of .bgw/.spw files below a    *)
(* folder, the per-file decode -> encode -> cleanup pipeline of            *)
(* convert_file, and the run driver main with its exit codes.              *)
(*                                                                         *)
(* A path is a sequence of parts relative to the sound folder; a part is   *)
(* a sequence of character codes (ASCII), so that sorting, glob matching   *)
(* and with_suffix are computed on the characters as Python computes them. *)
(* The filesystem is the set of paths of the regular files that exist      *)
(* (POSIX, case-sensitive names).                                          *)
(***************************************************************************)
EXTENDS Integers, Sequences, FiniteSets, TLC

VARIABLES
    argc,         \* len(sys.argv)
    folderKind,   \* what sys.argv[1] names: "missing", "file" or "dir"
    fs,           \* paths of the files that exist below the folder
    fs0,          \* fs as it was when the current run started
    run,          \* number of the current invocation of the program
    pc,           \* position of the control flow in main / convert_file
    audio_files,  \* main's audio_files (sequence of paths)
    i,            \* loop index of main's for loop (1-based, as enumerate(.., 1))
    converted,    \* main's counters
    skipped,
    failed,
    launched,     \* outcome of the latest subprocess.run: "none", "ok", "nf", "err"
    rc,           \* result.returncode of the latest completed subprocess
    ret,          \* value returned by convert_file
    msg,          \* latest per-file message printed
    decCalls,     \* per discovered file: subprocess.run calls of the decoder, this run
    encCalls,     \* per discovered file: subprocess.run calls of the encoder, this run
    exitCode,     \* process exit status (meaningful when pc = "exited")
    exitAt,       \* which exit the run took
    lastSummary,  \* the summary printed by the latest run that printed one
    written       \* paths the external processes of the current convert_file call wrote

vars == <<argc, folderKind, fs, fs0, run, pc, audio_files, i, converted, skipped,
          failed, launched, rc, ret, msg, decCalls, encCalls, exitCode, exitAt,
          lastSummary, written>>

(***************************************************************************)
(* Bounds of the model.                                                    *)
(***************************************************************************)
MaxRuns == 2      \* invocations of the program in sequence over one folder
MaxPre == 2       \* .wav/.ogg siblings already present before the first run

(***************************************************************************)
(* Characters and names.                                                   *)
(***************************************************************************)
DOT == <<46>>
BGW == <<98, 103, 119>>        \* "bgw"
SPW == <<115, 112, 119>>       \* "spw"
BGW_UP == <<66, 71, 87>>       \* "BGW"
SPW_UP == <<83, 80, 87>>       \* "SPW"
BGW_MIXED == <<66, 103, 119>>  \* "Bgw"
TXT == <<116, 120, 116>>       \* "txt"
WAV == <<119, 97, 118>>        \* "wav"
OGG == <<111, 103, 103>>       \* "ogg"

\* the glob patterns of find_audio_files, each '*.' followed by an extension
Patterns == <<BGW, SPW, BGW_UP, SPW_UP>>

Name(stem, ext) == stem \o DOT \o ext

(***************************************************************************)
(* pathlib operations.                                                     *)
(***************************************************************************)
\* str.rfind('.') on a name, 1-based; 0 when there is no dot
LastDot(name) ==
    LET dots == {k \in 1..Len(name) : <<name[k]>> = DOT}
    IN IF dots = {} THEN 0 ELSE CHOOSE k \in dots : \A j \in dots : j <= k

\* PurePath.suffix: from the last dot, unless the dot is first or last
Suffix(name) ==
    LET d == LastDot(name)
    IN IF d > 1 /\ d < Len(name) THEN SubSeq(name, d, Len(name)) ELSE <<>>

\* variant: the new name is built from the file name alone, without its directory
with_suffix_NameOnly(path, ext) ==
    LET name == path[Len(path)]
        stem == SubSeq(name, 1, Len(name) - Len(Suffix(name)))
    IN <<stem \o DOT \o ext>>

\* PurePath.with_suffix(suffix), suffix given without its dot
with_suffix(path, ext) ==
    LET name == path[Len(path)]
        stem == SubSeq(name, 1, Len(name) - Len(Suffix(name)))
    IN [path EXCEPT ![Len(path)] = stem \o DOT \o ext]

wav_path(input_path) == with_suffix(input_path, WAV)
ogg_path(input_path) == with_suffix(input_path, OGG)

\* fnmatch of a name against '*.<ext>' (case-sensitive)
Matches(name, ext) ==
    /\ Len(name) >= Len(ext) + 1
    /\ SubSeq(name, Len(name) - Len(ext), Len(name)) = DOT \o ext

\* str comparison: lexicographic on the code points
RECURSIVE StrLess(_, _)
StrLess(a, b) ==
    IF a = <<>> THEN b # <<>>
    ELSE IF b = <<>> THEN FALSE
    ELSE IF a[1] = b[1] THEN StrLess(Tail(a), Tail(b))
    ELSE a[1] < b[1]

\* Path.__lt__: lexicographic on the lists of parts
RECURSIVE PathLess(_, _)
PathLess(p, q) ==
    IF p = <<>> THEN q # <<>>
    ELSE IF q = <<>> THEN FALSE
    ELSE IF p[1] = q[1] THEN PathLess(Tail(p), Tail(q))
    ELSE StrLess(p[1], q[1])

\* insertion of x into a sorted sequence, after the elements not greater
RECURSIVE Insert(_, _)
Insert(x, s) ==
    IF s = <<>> THEN <<x>>
    ELSE IF PathLess(x, s[1]) THEN <<x>> \o s
    ELSE <<s[1]>> \o Insert(x, Tail(s))

\* sorted(files)
RECURSIVE sorted(_)
sorted(s) == IF s = <<>> THEN <<>> ELSE Insert(s[1], sorted(Tail(s)))

\* an enumeration of a set of paths (the order in which rglob yields them)
RECURSIVE Enumerate(_)
Enumerate(S) ==
    IF S = {} THEN <<>>
    ELSE LET x == CHOOSE y \in S : TRUE IN <<x>> \o Enumerate(S \ {x})

\* folder.rglob('*.<ext>'): the files at any depth whose name matches
rglob(files, ext) == Enumerate({p \in files : Matches(p[Len(p)], ext)})

\* files.extend(folder.rglob(ext)) for the patterns from index k on
RECURSIVE Extend(_, _)
Extend(files, k) ==
    IF k > Len(Patterns) THEN <<>>
    ELSE rglob(files, Patterns[k]) \o Extend(files, k + 1)

find_audio_files(files) == sorted(Extend(files, 1))

(***************************************************************************)
(* The folders the runs are tried on: the files below the sound folder.    *)
(***************************************************************************)
\* x.bgw and x.spw: two inputs of one directory sharing a stem
TreeShared == { <<Name(<<120>>, BGW)>>, <<Name(<<120>>, SPW)>> }
\* a.bgw, sub/b.SPW and c.txt
TreeNested == { <<Name(<<97>>, BGW)>>,
                <<<<115, 117, 98>>, Name(<<98>>, SPW_UP)>>,
                <<Name(<<99>>, TXT)>> }
\* n.BGW and m.Bgw (mixed-case extension)
TreeMixed == { <<Name(<<110>>, BGW_UP)>>, <<Name(<<109>>, BGW_MIXED)>> }
\* c.txt only
TreeNone == { <<Name(<<99>>, TXT)>> }

Trees == {TreeShared, TreeNested, TreeMixed, TreeNone}

\* the .wav and .ogg siblings of the files discovery finds in a tree
Siblings(tree) ==
    LET found == find_audio_files(tree)
    IN UNION {{wav_path(found[k]), ogg_path(found[k])} : k \in 1..Len(found)}

\* outcomes of subprocess.run: the process ran to completion, the executable
\* could not be found (FileNotFoundError), any other exception
Outcomes == {"ok", "nf", "err"}
\* outcomes of Path.unlink on an existing file: removed, or OSError raised
UnlinkOutcomes == {"ok", "err"}
ExitStatuses == {0, 1}

(***************************************************************************)
(* Initial state: the program is started on some arguments and folder.     *)
(***************************************************************************)
Init ==
    /\ argc \in 1..3
    /\ folderKind \in {"missing", "file", "dir"}
    /\ IF folderKind = "dir"
       THEN \E tree \in Trees : \E pre \in SUBSET Siblings(tree) :
               /\ Cardinality(pre) <= MaxPre
               /\ fs = tree \cup pre
       ELSE fs = {}
    /\ fs0 = fs
    /\ run = 1
    /\ pc = "start"
    /\ audio_files = <<>>
    /\ i = 0
    /\ converted = 0
    /\ skipped = 0
    /\ failed = 0
    /\ launched = "none"
    /\ rc = 0
    /\ ret = FALSE
    /\ msg = "none"
    /\ decCalls = <<>>
    /\ encCalls = <<>>
    /\ exitCode = 0
    /\ exitAt = "none"
    /\ lastSummary = <<>>
    /\ written = {}

argv == <<argc, folderKind>>
tally == <<converted, skipped, failed>>
calls == <<decCalls, encCalls>>
locals == <<audio_files, i, launched, rc, ret, msg, written>>

\* sys.exit(code), or the interpreter ending the process
Exit(code, at) ==
    /\ pc' = "exited"
    /\ exitCode' = code
    /\ exitAt' = at

NoExit == UNCHANGED <<exitCode, exitAt>>

(***************************************************************************)
(* main: arguments and folder validation.                                  *)
(***************************************************************************)
MainArgs ==
    /\ pc = "start"
    /\ IF argc < 2 THEN Exit(1, "usage") ELSE pc' = "validate" /\ NoExit
    /\ UNCHANGED <<argv, fs, fs0, run, locals, tally, calls, lastSummary>>

MainValidate ==
    /\ pc = "validate"
    /\ IF folderKind = "missing" THEN Exit(1, "nofolder")
       ELSE IF folderKind # "dir" THEN Exit(1, "notdir")
       ELSE pc' = "dep_dec" /\ NoExit
    /\ UNCHANGED <<argv, fs, fs0, run, locals, tally, calls, lastSummary>>

(***************************************************************************)
(* main: dependency check.  An exception other than FileNotFoundError is   *)
(* not caught and ends the process with a traceback, exit status 1.        *)
(***************************************************************************)
MainCheckDecoder ==
    /\ pc = "dep_dec"
    /\ \E o \in Outcomes :
          /\ launched' = o
          /\ IF o = "ok" THEN pc' = "dep_enc" /\ NoExit
             ELSE IF o = "nf" THEN Exit(1, "nodecoder")
             ELSE Exit(1, "traceback_check")
    /\ UNCHANGED <<argv, fs, fs0, run, audio_files, i, rc, ret, msg, tally, calls,
                   lastSummary, written>>

\* variant: a missing encoder is reported but the run goes on
MainCheckEncoder_NoExit ==
    /\ pc = "dep_enc"
    /\ \E o \in Outcomes :
          /\ launched' = o
          /\ IF o = "err" THEN Exit(1, "traceback_check")
             ELSE pc' = "scan" /\ NoExit
    /\ UNCHANGED <<argv, fs, fs0, run, audio_files, i, rc, ret, msg, tally, calls,
                   lastSummary, written>>

MainCheckEncoder ==
    /\ pc = "dep_enc"
    /\ \E o \in Outcomes :
          /\ launched' = o
          /\ IF o = "ok" THEN pc' = "scan" /\ NoExit
             ELSE IF o = "nf" THEN Exit(1, "noencoder")
             ELSE Exit(1, "traceback_check")
    /\ UNCHANGED <<argv, fs, fs0, run, audio_files, i, rc, ret, msg, tally, calls,
                   lastSummary, written>>

(***************************************************************************)
(* main: discovery, and the initialisation of the counters.                *)
(***************************************************************************)
MainScan ==
    /\ pc = "scan"
    /\ audio_files' = find_audio_files(fs)
    /\ IF audio_files' = <<>>
       THEN /\ Exit(0, "nofiles")
            /\ UNCHANGED <<i, tally, calls>>
       ELSE /\ pc' = "loop"
            /\ NoExit
            /\ i' = 1
            /\ converted' = 0
            /\ skipped' = 0
            /\ failed' = 0
            /\ decCalls' = [k \in 1..Len(audio_files') |-> 0]
            /\ encCalls' = [k \in 1..Len(audio_files') |-> 0]
    /\ UNCHANGED <<argv, fs, fs0, run, launched, rc, ret, msg, lastSummary, written>>

(***************************************************************************)
(* main: the for loop.  The driver checks the output file itself before    *)
(* calling convert_file.                                                   *)
(***************************************************************************)
\* variant: the driver calls convert_file without looking at the output file
MainLoop_NoDriverCheck ==
    /\ pc = "loop"
    /\ IF i > Len(audio_files) THEN pc' = "summary" ELSE pc' = "cf_precheck"
    /\ written' = {}
    /\ NoExit
    /\ UNCHANGED <<argv, fs, fs0, run, audio_files, i, launched, rc, ret, msg, tally,
                   calls, lastSummary>>

MainLoop ==
    /\ pc = "loop"
    /\ IF i > Len(audio_files)
       THEN /\ pc' = "summary"
            /\ UNCHANGED <<i, skipped, msg>>
       ELSE IF ogg_path(audio_files[i]) \in fs
       THEN /\ skipped' = skipped + 1
            /\ msg' = "SKIP"
            /\ i' = i + 1
            /\ pc' = "loop"
       ELSE /\ pc' = "cf_precheck"
            /\ UNCHANGED <<i, skipped, msg>>
    /\ written' = {}
    /\ NoExit
    /\ UNCHANGED <<argv, fs, fs0, run, audio_files, launched, rc, ret, converted,
                   failed, calls, lastSummary>>

(***************************************************************************)
(* convert_file(audio_files[i], vgmstream_cmd).                            *)
(***************************************************************************)
input_path == audio_files[i]

\* if ogg_path.exists(): print [SKIP]; return True
CfPrecheck ==
    /\ pc = "cf_precheck"
    /\ IF ogg_path(input_path) \in fs
       THEN /\ msg' = "SKIP"
            /\ ret' = TRUE
            /\ pc' = "cf_return"
       ELSE /\ pc' = "cf_decode"
            /\ UNCHANGED <<msg, ret>>
    /\ NoExit
    /\ UNCHANGED <<argv, fs, fs0, run, audio_files, i, launched, rc, tally, calls,
                   lastSummary, written>>

\* Step 1: subprocess.run([vgmstream_cmd, '-o', wav_path, input_path], text=True).
\* The decoder may or may not leave a file at wav_path, whatever its status; an
\* exception other than FileNotFoundError may be raised at the launch or after
\* the process has ended (decoding of its output).
CfDecode ==
    /\ pc = "cf_decode"
    /\ decCalls' = [decCalls EXCEPT ![i] = @ + 1]
    /\ \E o \in Outcomes :
          /\ launched' = o
          /\ IF o = "nf"
             THEN /\ pc' = "cf_fnf"
                  /\ UNCHANGED <<fs, rc, written>>
             ELSE \E wrote \in BOOLEAN :
                  /\ fs' = IF wrote THEN fs \cup {wav_path(input_path)} ELSE fs
                  /\ written' = IF wrote THEN written \cup {wav_path(input_path)}
                                ELSE written
                  /\ IF o = "ok"
                     THEN /\ rc' \in ExitStatuses
                          /\ pc' = "cf_decode_chk"
                     ELSE /\ pc' = "cf_exc"
                          /\ UNCHANGED rc
    /\ NoExit
    /\ UNCHANGED <<argv, fs0, run, audio_files, i, ret, msg, tally, encCalls,
                   lastSummary>>

\* variant: the exit status alone is trusted
DecodeFailed_ExitOnly(returncode, wavExists) == returncode # 0

\* result.returncode != 0 or not wav_path.exists()
DecodeFailed(returncode, wavExists) == returncode # 0 \/ ~wavExists

CfDecodeCheck ==
    /\ pc = "cf_decode_chk"
    /\ IF DecodeFailed(rc, wav_path(input_path) \in fs)
       THEN /\ msg' = "FAIL_vgmstream"
            /\ ret' = FALSE
            /\ pc' = "cf_return"
       ELSE /\ pc' = "cf_encode"
            /\ UNCHANGED <<msg, ret>>
    /\ NoExit
    /\ UNCHANGED <<argv, fs, fs0, run, audio_files, i, launched, rc, tally, calls,
                   lastSummary, written>>

\* Step 2: subprocess.run(['ffmpeg', '-i', wav_path, ..., ogg_path, '-y', ...]).
CfEncode ==
    /\ pc = "cf_encode"
    /\ encCalls' = [encCalls EXCEPT ![i] = @ + 1]
    /\ \E o \in Outcomes :
          /\ launched' = o
          /\ IF o = "nf"
             THEN /\ pc' = "cf_fnf"
                  /\ UNCHANGED <<fs, rc, written>>
             ELSE \E wrote \in BOOLEAN :
                  /\ fs' = IF wrote THEN fs \cup {ogg_path(input_path)} ELSE fs
                  /\ written' = IF wrote THEN written \cup {ogg_path(input_path)}
                                ELSE written
                  /\ IF o = "ok"
                     THEN /\ rc' \in ExitStatuses
                          /\ pc' = "cf_encode_chk"
                     ELSE /\ pc' = "cf_exc"
                          /\ UNCHANGED rc
    /\ NoExit
    /\ UNCHANGED <<argv, fs0, run, audio_files, i, ret, msg, tally, decCalls,
                   lastSummary>>

\* variant: the exit status alone is trusted
EncodeFailed_ExitOnly(returncode, oggExists) == returncode # 0

\* result.returncode != 0 or not ogg_path.exists()
EncodeFailed(returncode, oggExists) == returncode # 0 \/ ~oggExists

\* path.unlink() of an existing file with outcome u; an OSError goes to the
\* handler at label handler
Unlink(path, u, handler) ==
    IF u = "ok"
    THEN /\ fs' = fs \ {path}
         /\ pc' = "cf_return"
    ELSE /\ fs' = fs
         /\ pc' = handler

\* variant: the failure branch returns without removing the wav
CfEncodeCheck_NoCleanup ==
    /\ pc = "cf_encode_chk"
    /\ IF EncodeFailed(rc, ogg_path(input_path) \in fs)
       THEN /\ msg' = "FAIL_ffmpeg"
            /\ ret' = FALSE
            /\ pc' = "cf_return"
       ELSE /\ pc' = "cf_cleanup"
            /\ UNCHANGED <<msg, ret>>
    /\ NoExit
    /\ UNCHANGED <<argv, fs, fs0, run, audio_files, i, launched, rc, tally, calls,
                   lastSummary, written>>

\* if ffmpeg failed: print, unlink the wav if it exists, return False
CfEncodeCheck ==
    /\ pc = "cf_encode_chk"
    /\ IF EncodeFailed(rc, ogg_path(input_path) \in fs)
       THEN /\ msg' = "FAIL_ffmpeg"
            /\ ret' = FALSE
            /\ IF wav_path(input_path) \in fs
               THEN \E u \in UnlinkOutcomes : Unlink(wav_path(input_path), u, "cf_exc")
               ELSE /\ pc' = "cf_return"
                    /\ UNCHANGED fs
       ELSE /\ pc' = "cf_cleanup"
            /\ UNCHANGED <<msg, ret, fs>>
    /\ NoExit
    /\ UNCHANGED <<argv, fs0, run, audio_files, i, launched, rc, tally, calls,
                   lastSummary, written>>

\* variant: step 3 reports OK without removing the wav
CfCleanup_NoUnlink ==
    /\ pc = "cf_cleanup"
    /\ msg' = "OK"
    /\ ret' = TRUE
    /\ pc' = "cf_return"
    /\ NoExit
    /\ UNCHANGED <<argv, fs, fs0, run, audio_files, i, launched, rc, tally, calls,
                   lastSummary, written>>

\* Step 3: wav_path.unlink(); print [OK]; return True
CfCleanup ==
    /\ pc = "cf_cleanup"
    /\ IF wav_path(input_path) \notin fs
       THEN /\ pc' = "cf_fnf"
            /\ UNCHANGED <<fs, msg, ret>>
       ELSE \E u \in UnlinkOutcomes :
            /\ Unlink(wav_path(input_path), u, "cf_exc")
            /\ IF u = "ok"
               THEN msg' = "OK" /\ ret' = TRUE
               ELSE UNCHANGED <<msg, ret>>
    /\ NoExit
    /\ UNCHANGED <<argv, fs0, run, audio_files, i, launched, rc, tally, calls,
                   lastSummary, written>>

\* except FileNotFoundError: print; return False
CfNotFound ==
    /\ pc = "cf_fnf"
    /\ msg' = "ERROR_notfound"
    /\ ret' = FALSE
    /\ pc' = "cf_return"
    /\ NoExit
    /\ UNCHANGED <<argv, fs, fs0, run, audio_files, i, launched, rc, tally, calls,
                   lastSummary, written>>

\* variant: the handler removes the output file instead of the wav
CfException_UnlinksOgg ==
    /\ pc = "cf_exc"
    /\ msg' = "ERROR"
    /\ ret' = FALSE
    /\ pc' = "cf_return"
    /\ fs' = IF wav_path(input_path) \in fs THEN fs \ {ogg_path(input_path)} ELSE fs
    /\ NoExit
    /\ UNCHANGED <<argv, fs0, run, audio_files, i, launched, rc, tally, calls,
                   lastSummary, written>>

\* except Exception: print; unlink the wav if it exists; return False.
\* An exception raised by this unlink leaves convert_file and main uncaught.
CfException ==
    /\ pc = "cf_exc"
    /\ msg' = "ERROR"
    /\ IF wav_path(input_path) \in fs
       THEN \E u \in UnlinkOutcomes :
            /\ fs' = IF u = "ok" THEN fs \ {wav_path(input_path)} ELSE fs
            /\ IF u = "ok"
               THEN pc' = "cf_return" /\ ret' = FALSE /\ NoExit
               ELSE Exit(1, "traceback_convert") /\ UNCHANGED ret
       ELSE /\ pc' = "cf_return"
            /\ ret' = FALSE
            /\ NoExit
            /\ UNCHANGED fs
    /\ UNCHANGED <<argv, fs0, run, audio_files, i, launched, rc, tally, calls,
                   lastSummary, written>>

\* variant: a failed file is counted and tried again
MainCount_RetryFailed ==
    /\ pc = "cf_return"
    /\ IF ret
       THEN converted' = converted + 1 /\ i' = i + 1 /\ UNCHANGED failed
       ELSE failed' = failed + 1 /\ UNCHANGED <<converted, i>>
    /\ pc' = "loop"
    /\ NoExit
    /\ UNCHANGED <<argv, fs, fs0, run, audio_files, launched, rc, ret, msg, skipped,
                   calls, lastSummary, written>>

\* variant: a failed file is not counted
MainCount_DropsFailed ==
    /\ pc = "cf_return"
    /\ IF ret THEN converted' = converted + 1 ELSE UNCHANGED converted
    /\ i' = i + 1
    /\ pc' = "loop"
    /\ NoExit
    /\ UNCHANGED <<argv, fs, fs0, run, audio_files, launched, rc, ret, msg, skipped,
                   failed, calls, lastSummary, written>>

\* main: if convert_file(...): converted += 1 else: failed += 1
MainCount ==
    /\ pc = "cf_return"
    /\ IF ret
       THEN converted' = converted + 1 /\ UNCHANGED failed
       ELSE failed' = failed + 1 /\ UNCHANGED converted
    /\ i' = i + 1
    /\ pc' = "loop"
    /\ NoExit
    /\ UNCHANGED <<argv, fs, fs0, run, audio_files, launched, rc, ret, msg, skipped,
                   calls, lastSummary, written>>

\* main: the summary; the process then ends with status 0
MainSummary ==
    /\ pc = "summary"
    /\ lastSummary' = <<[converted |-> converted, skipped |-> skipped,
                         failed |-> failed]>>
    /\ Exit(0, "summary")
    /\ UNCHANGED <<argv, fs, fs0, run, locals, tally, calls>>

(***************************************************************************)
(* The program is run again with the same arguments over the same folder.  *)
(***************************************************************************)
Rerun ==
    /\ pc = "exited"
    /\ run < MaxRuns
    /\ run' = run + 1
    /\ fs0' = fs
    /\ pc' = "start"
    /\ audio_files' = <<>>
    /\ i' = 0
    /\ converted' = 0
    /\ skipped' = 0
    /\ failed' = 0
    /\ launched' = "none"
    /\ rc' = 0
    /\ ret' = FALSE
    /\ msg' = "none"
    /\ decCalls' = <<>>
    /\ encCalls' = <<>>
    /\ exitCode' = 0
    /\ exitAt' = "none"
    /\ written' = {}
    /\ lastSummary' = IF exitAt = "summary" THEN lastSummary ELSE <<>>
    /\ UNCHANGED <<argv, fs>>

Next ==
    \/ MainArgs
    \/ MainValidate
    \/ MainCheckDecoder
    \/ MainCheckEncoder
    \/ MainScan
    \/ MainLoop
    \/ CfPrecheck
    \/ CfDecode
    \/ CfDecodeCheck
    \/ CfEncode
    \/ CfEncodeCheck
    \/ CfCleanup
    \/ CfNotFound
    \/ CfException
    \/ MainCount
    \/ MainSummary
    \/ Rerun

Spec == Init /\ [][Next]_vars

(***************************************************************************)
(* Properties.                                                             *)
(***************************************************************************)
the_wav == wav_path(input_path)
the_ogg == ogg_path(input_path)
InCall == pc \in {"cf_precheck", "cf_decode", "cf_decode_chk", "cf_encode",
                  "cf_encode_chk", "cf_cleanup", "cf_fnf", "cf_exc", "cf_return"}
Returned == pc = "cf_return"

\* within a run, the call counts of the files already processed do not change
PastCallsFrozen ==
    run' = run =>
        \A k \in 1..Len(decCalls) :
            k < i => decCalls'[k] = decCalls[k] /\ encCalls'[k] = encCalls[k]

\* C1: when the driver reaches a discovered file whose .ogg exists, the step
\* counts it as skipped (converted and failed unchanged), no decoder or encoder
\* call has been or is made for it, the driver moves on to the next file, and
\* the call counts of a file already processed never change afterwards.
C1_SkipExisting ==
    [][ /\ (pc = "loop" /\ i <= Len(audio_files) /\ ogg_path(audio_files[i]) \in fs)
            => /\ skipped' = skipped + 1
               /\ converted' = converted
               /\ failed' = failed
               /\ decCalls[i] = 0 /\ encCalls[i] = 0
               /\ decCalls' = decCalls /\ encCalls' = encCalls
               /\ i' = i + 1
               /\ pc' = "loop"
               /\ fs' = fs
        /\ PastCallsFrozen ]_vars

C1_Witness ==
    /\ pc = "loop" /\ i > 1 /\ msg = "SKIP" /\ skipped >= 1
    /\ ogg_path(audio_files[i - 1]) \in fs0
    /\ decCalls[i - 1] = 0 /\ encCalls[i - 1] = 0

\* C2: when convert_file returns with the OK outcome, the .wav does not exist
\* and the .ogg exists.
C2_OkCleansWav ==
    (Returned /\ msg = "OK") => (ret /\ the_wav \notin fs /\ the_ogg \in fs)

C2_Witness == Returned /\ msg = "OK" /\ the_wav \in written /\ the_ogg \in written

\* the encoder of the current call ran to completion and the encode stage
\* failed: exit status non-zero or no output file
EncodeStageFailed ==
    /\ encCalls[i] = 1
    /\ launched = "ok"
    /\ (rc # 0 \/ the_ogg \notin fs)

\* C3: when convert_file returns from a call whose encode stage failed, the
\* .wav does not exist and the call returns False.
C3_EncodeFailCleansWav ==
    (Returned /\ EncodeStageFailed) => (the_wav \notin fs /\ ~ret)

C3_Witness ==
    Returned /\ EncodeStageFailed /\ the_wav \in written /\ msg = "FAIL_ffmpeg"

\* C4: a decoder that exits 0 without a .wav on disk makes convert_file return
\* False with the decode failure message; the file is then counted as failed
\* and the encoder has not been and is never called for it.
C4_DecodeNeedsWav ==
    [][ /\ (pc = "cf_decode_chk" /\ rc = 0 /\ the_wav \notin fs)
            => (pc' = "cf_return" /\ ~ret' /\ msg' = "FAIL_vgmstream")
        /\ (Returned /\ msg = "FAIL_vgmstream")
            => /\ failed' = failed + 1
               /\ converted' = converted
               /\ skipped' = skipped
               /\ encCalls[i] = 0
               /\ i' = i + 1
        /\ PastCallsFrozen ]_vars

C4_Witness ==
    Returned /\ msg = "FAIL_vgmstream" /\ rc = 0 /\ the_wav \notin fs /\ decCalls[i] = 1

\* no decoder or encoder call has been made by convert_file in the current run
NoPerFileCalls ==
    \A k \in 1..Len(decCalls) : decCalls[k] = 0 /\ encCalls[k] = 0

\* the current run follows a run that printed its summary, and is processing
PreviousRunSummarised ==
    /\ run >= 2
    /\ lastSummary # <<>>
    /\ pc \in {"loop", "summary"} \/ InCall

C6_NotFoundCleansWav ==
    (Returned /\ launched = "nf")
        => /\ msg = "ERROR_notfound"
           /\ ~ret
           /\ (the_wav \in written => the_wav \notin fs)

\* C7 (as stated): on every return of convert_file, a .wav that the decoder
\* of this call wrote does not exist.
C7_WavNeverPersists ==
    (Returned /\ the_wav \in written) => the_wav \notin fs

\* C8 (as stated): once the loop over the discovered files has started, the
\* run ends only by printing the summary after the last file.
C8_RunReachesSummary ==
    (pc = "exited" /\ audio_files # <<>>)
        => (exitAt = "summary" /\ i = Len(audio_files) + 1)

\* C9 (as stated): the exit status is 1 exactly when the arguments are missing,
\* the folder is missing or not a directory, or an executable could not be
\* launched at the dependency check; otherwise it is 0.
C9_ExitCodes ==
    pc = "exited"
        => /\ exitCode \in {0, 1}
           /\ exitCode = 1 <=> exitAt \in {"usage", "nofolder", "notdir", "nodecoder",
                                           "noencoder", "traceback_check"}

\* the run was ended by the dependency check
AbortedAtCheck ==
    pc = "exited" /\ exitAt \in {"nodecoder", "noencoder", "traceback_check"}

\* C10: an executable that cannot be launched at the dependency check ends the
\* run at once with exit status 1; up to and including the dependency check
\* nothing has been discovered, convert_file has made no call, and no file has
\* been created or deleted.
C10_CheckPrecedesProcessing ==
    /\ []((pc \in {"start", "validate", "dep_dec", "dep_enc"} \/ AbortedAtCheck)
            => /\ audio_files = <<>>
               /\ decCalls = <<>> /\ encCalls = <<>>
               /\ fs = fs0)
    /\ [](AbortedAtCheck => exitCode = 1)
    /\ [][(pc \in {"dep_dec", "dep_enc"} /\ launched' # "ok")
            => (pc' = "exited" /\ exitCode' = 1 /\ fs' = fs)]_vars

C10_Witness ==
    /\ pc = "exited" /\ exitAt = "noencoder" /\ launched = "nf" /\ exitCode = 1
    /\ find_audio_files(fs) # <<>>

\* discovery has run in the current run
Scanned ==
    \/ pc \in {"loop", "summary"}
    \/ InCall
    \/ pc = "exited" /\ exitAt \in {"nofiles", "summary", "traceback_convert"}

\* str.lower() on ASCII codes
Lower(str) ==
    [k \in 1..Len(str) |-> IF str[k] >= 65 /\ str[k] <= 90 THEN str[k] + 32 ELSE str[k]]

\* the extension of the path, lower-cased, is bgw or spw
IsAudioName(path) ==
    Lower(Suffix(path[Len(path)])) \in {DOT \o BGW, DOT \o SPW}

\* the sequence is strictly increasing in the order of paths
StrictlySorted(seq) ==
    \A j, k \in 1..Len(seq) : j < k => PathLess(seq[j], seq[k])

\* C11 (as stated): discovery returns exactly the files of the folder whose
\* extension is bgw or spw in any casing, each once, in sorted order.
C11_DiscoveryAnyCasing ==
    Scanned
        => /\ {audio_files[k] : k \in 1..Len(audio_files)} = {p \in fs : IsAudioName(p)}
           /\ StrictlySorted(audio_files)

\* C12 (as stated): an unexpected error in the pipeline never leaves
\* convert_file; the call returns False and the .wav does not exist on return.
C12_ErrorsAreCaught ==
    /\ exitAt # "traceback_convert"
    /\ (Returned /\ msg = "ERROR") => (~ret /\ the_wav \notin fs)

\* C13: an encoder that exits 0 without an .ogg on disk makes convert_file
\* print the encode failure and return False or raise, never report OK; when
\* the call returns, the file is counted as failed and not as converted.
C13_EncodeNeedsOgg ==
    [][ /\ (pc = "cf_encode_chk" /\ rc = 0 /\ the_ogg \notin fs)
            => (msg' = "FAIL_ffmpeg" /\ ~ret' /\ pc' \in {"cf_return", "cf_exc"})
        /\ (Returned /\ encCalls[i] = 1 /\ launched = "ok" /\ rc = 0
                /\ the_ogg \notin fs)
            => /\ ~ret
               /\ msg \in {"FAIL_ffmpeg", "ERROR"}
               /\ failed' = failed + 1
               /\ converted' = converted
               /\ skipped' = skipped ]_vars

C13_Witness ==
    /\ Returned /\ msg = "FAIL_ffmpeg" /\ encCalls[i] = 1 /\ launched = "ok"
    /\ rc = 0 /\ the_ogg \notin fs /\ the_wav \in written

\* C14: in a run, the decoder and the encoder are each called at most once per
\* discovered file (discovery lists no file twice), the encoder never without
\* the decoder; and the encoder is called only from the encode step of the
\* current file, after its decoder completed with exit status 0 and the .wav
\* exists.
C14_NoRetries ==
    /\ [](\A k \in 1..Len(decCalls) : decCalls[k] <= 1 /\ encCalls[k] <= decCalls[k])
    /\ [](\A j, k \in 1..Len(audio_files) : j # k => audio_files[j] # audio_files[k])
    /\ [][ (run' = run /\ \E k \in 1..Len(encCalls) : encCalls'[k] > encCalls[k])
            => /\ pc = "cf_encode"
               /\ encCalls' = [encCalls EXCEPT ![i] = 1]
               /\ decCalls[i] = 1
               /\ launched = "ok"
               /\ rc = 0
               /\ the_wav \in fs ]_vars

C14_Witness ==
    /\ pc = "cf_encode_chk" /\ decCalls[i] = 1 /\ encCalls[i] = 1
    /\ i = Len(audio_files) /\ i > 1 /\ decCalls[1] = 1

total == converted + skipped + failed

\* C15: the discovered files are strictly sorted and fixed for the run; the
\* loop index advances by one from the first file to past the last; each
\* advance adds one to exactly one counter and the counters change at no
\* other time; so the counters sum to the number of files done, and to the
\* number of discovered files at the summary.
C15_TallyCountsEachFile ==
    /\ [](Scanned => StrictlySorted(audio_files))
    /\ []((pc = "loop" \/ InCall)
            => /\ total = i - 1
               /\ i >= 1
               /\ i <= Len(audio_files) + 1
               /\ (InCall => i <= Len(audio_files)))
    /\ []((pc = "summary" \/ (pc = "exited" /\ exitAt = "summary"))
            => (total = Len(audio_files) /\ i = Len(audio_files) + 1))
    /\ [][ (run' = run /\ pc # "scan")
            => /\ audio_files' = audio_files
               /\ IF i' # i
                  THEN /\ i' = i + 1
                       /\ total' = total + 1
                       /\ converted' \in {converted, converted + 1}
                       /\ skipped' \in {skipped, skipped + 1}
                       /\ failed' \in {failed, failed + 1}
                  ELSE <<converted, skipped, failed>>' = <<converted, skipped, failed>>
          ]_vars

C15_Witness ==
    /\ pc = "summary" /\ Len(audio_files) = 2
    /\ converted = 1 /\ failed = 1 /\ skipped = 0

\* C16 (as stated): when convert_file returns, an .ogg that did not exist at
\* the start of the run exists only if the call reported OK and returned True.
C16_OggOnlyWhenOk ==
    (Returned /\ the_ogg \notin fs0 /\ the_ogg \in fs) => (msg = "OK" /\ ret)

\* C17 (as stated): at the summary, every discovered file whose .ogg did not
\* exist at the start of the run has had the decoder called for it (so it has
\* been counted as converted or failed, not skipped); stated for the runs in
\* which no file failed.
C17_MissingOutputIsAttempted ==
    (pc = "exited" /\ exitAt = "summary" /\ failed = 0)
        => \A k \in 1..Len(audio_files) :
              ogg_path(audio_files[k]) \notin fs0 => decCalls[k] = 1

\* the path lies in the directory of the current input and is named after the
\* input's stem with the extension wav or ogg
OwnSibling(path) ==
    LET name == input_path[Len(input_path)]
        stem == SubSeq(name, 1, Len(name) - Len(Suffix(name)))
    IN /\ Len(path) = Len(input_path)
       /\ SubSeq(path, 1, Len(path) - 1) = SubSeq(input_path, 1, Len(input_path) - 1)
       /\ path[Len(path)] \in {stem \o DOT \o WAV, stem \o DOT \o OGG}

\* C18: a step creates or deletes files only inside convert_file, and only
\* the .wav and .ogg siblings of the current input; every discovered input
\* file stays on disk.
C18_OnlyOwnSiblingsChange ==
    /\ [](Scanned => \A k \in 1..Len(audio_files) : audio_files[k] \in fs)
    /\ [][ fs' # fs
            => /\ InCall
               /\ \A p \in (fs \ fs') \cup (fs' \ fs) : OwnSibling(p) ]_vars

C18_Witness ==
    /\ Returned /\ i = 2 /\ Len(input_path) = 2
    /\ the_ogg \in written /\ the_wav \in written /\ the_wav \notin fs
    /\ wav_path(audio_files[1]) \in fs
    /\ wav_path(audio_files[1]) \notin fs0

\* C19 (as stated): when convert_file returns for the first file of a run, a
\* .wav that existed before the run and that this call did not write is still
\* on disk.
C19_Original ==
    (Returned /\ i = 1 /\ the_wav \in fs0 /\ the_wav \notin written)
        => the_wav \in fs

\* C19 (amended): a step deletes a file only in the encode-failure branch, in
\* step 3 or in the exception handler of convert_file, and the file is the
\* .wav of the current input, whether or not this call wrote it; after a return
\* with OK, the ffmpeg failure or the unexpected-error message no .wav is left.
C19_WavDeletedOnCleanupPaths ==
    /\ []((Returned /\ msg \in {"OK", "FAIL_ffmpeg", "ERROR"}) => the_wav \notin fs)
    /\ [][ ~(fs \subseteq fs')
            => /\ pc \in {"cf_encode_chk", "cf_cleanup", "cf_exc"}
               /\ fs \ fs' = {the_wav} ]_vars

C19_Witness ==
    /\ Returned /\ i = 1 /\ msg = "ERROR"
    /\ the_wav \in fs0 /\ the_wav \notin written /\ the_wav \notin fs

====
